---------------------------- MODULE Spec2Model ----------------------------
(***************************************************************************)
(* A model of daily_arxiv.py: the record normaliser (ArXivPaper), the      *)
(* store merger (update_json_file), the navigation-page renderer           *)
(* (json_to_html) and the run (get_papers, main).                          *)
(*                                                                         *)
(* Text is a sequence of one-character strings, so that split, replace,    *)
(* concatenation and comparison are computed as Python computes them.  A   *)
(* Python dict is a sequence of [k, v] entries with distinct keys, in      *)
(* insertion order.                                                        *)
(***************************************************************************)
EXTENDS Integers, Sequences, FiniteSets, TLC

VARIABLES
    file,         \* the persisted store arxiv-daily.json: [exists, data]
    html,         \* the rendered index.html: [exists, data]
    today,        \* datetime.date.today(), a <<year, month, day>>
    pc,           \* where main is
    kw,           \* get_papers: index of the keyword being searched
    cur,          \* get_papers: keyword_specific_papers
    papers,       \* get_papers: papers; update_json_file: its argument
    json_data,    \* update_json_file: the store in memory
    mi,           \* update_json_file: index of the keyword being merged
    lookups,      \* history: the repository lookup's outcome for each paper built
    fileAtStart,  \* history: the store file when the run began
    writes,       \* history: writes of the store file in this run
    prior,        \* history: the store file before the last update_json_file
    once,         \* history: the store file after the batch was merged once
    docs,         \* history: every (store, document) pair json_to_html produced
    runs,         \* history: the calls of update_json_file so far
    result,       \* the search result being normalised: <<>> or <<r>>
    paper         \* the ArXivPaper built from it: <<>> or <<p>>

vars == <<file, html, today, pc, kw, cur, papers, json_data, mi, lookups,
          fileAtStart, writes, prior, once, docs, runs, result, paper>>

\* a path that does not exist, and a file holding d
NoFile == [exists |-> FALSE, data |-> <<>>]
FileOf(d) == [exists |-> TRUE, data |-> d]

-----------------------------------------------------------------------------
(* Text *)

\* s + t for every t of a list, in order
RECURSIVE Concat(_)
Concat(ss) == IF ss = <<>> THEN <<>> ELSE Head(ss) \o Concat(Tail(ss))

\* s.split(c)[0]: the text before the first c, all of s when it holds no c
RECURSIVE SplitFirst(_, _)
SplitFirst(s, c) ==
    IF s = <<>> \/ Head(s) = c THEN <<>>
    ELSE <<Head(s)>> \o SplitFirst(Tail(s), c)

\* s.replace(a, b) for one-character a
Replace(s, a, b) == [i \in 1..Len(s) |-> IF s[i] = a THEN b ELSE s[i]]

Digit(n) == <<"0", "1", "2", "3", "4", "5", "6", "7", "8", "9">>[n + 1]

\* str(datetime.date(y, m, d)): ISO format, zero padded
DateStr(d) ==
    << Digit(d[1] \div 1000), Digit((d[1] \div 100) % 10),
       Digit((d[1] \div 10) % 10), Digit(d[1] % 10), "-",
       Digit(d[2] \div 10), Digit(d[2] % 10), "-",
       Digit(d[3] \div 10), Digit(d[3] % 10) >>

\* ord(c) for the characters of a date string
Ord(c) ==
    CASE c = "-" -> 45
      [] c = "." -> 46
      [] c = "0" -> 48 [] c = "1" -> 49 [] c = "2" -> 50 [] c = "3" -> 51
      [] c = "4" -> 52 [] c = "5" -> 53 [] c = "6" -> 54 [] c = "7" -> 55
      [] c = "8" -> 56 [] c = "9" -> 57

\* Python's s < t on str: by code point, a proper prefix first
RECURSIVE StrLess(_, _)
StrLess(s, t) ==
    IF t = <<>> THEN FALSE
    ELSE IF s = <<>> THEN TRUE
    ELSE IF Head(s) # Head(t) THEN Ord(Head(s)) < Ord(Head(t))
    ELSE StrLess(Tail(s), Tail(t))

-----------------------------------------------------------------------------
(* ArXivPaper *)

base_url == <<"https://arxiv.paperswithcode.com/api/v0/papers/">>
Sentinel == <<"#">>

\* the outcomes of requests.get(self.code_url).json() and of reading it
LookupOutcomes ==
    { [kind |-> "network_error"],                       \* requests.get raises
      [kind |-> "not_json"],                            \* .json() raises
      [kind |-> "json_list"],                           \* [], "official" not in it
      [kind |-> "json_null"],                           \* null: "in" raises
      [kind |-> "no_official"],                         \* {"id": ...}
      [kind |-> "official_null"],                       \* {"official": null}
      [kind |-> "official_no_url"],                     \* {"official": {"x": 1}} or "x"
      [kind |-> "official_url", url |-> <<"https://github.com/x">>] }

\* the outcomes in which a statement of the try block raises
Raises(o) == o.kind \in {"network_error", "not_json", "json_null", "official_no_url"}

\* a faulty variant: the lookup's exception is not caught
GetRepoUrlUncaught(o) ==
    IF Raises(o) THEN [raised |-> TRUE, repo_url |-> Sentinel]
    ELSE IF o.kind = "official_url" THEN [raised |-> FALSE, repo_url |-> o.url]
    ELSE [raised |-> FALSE, repo_url |-> Sentinel]

\* get_repo_url: "#" unless the answer holds a non-empty "official" with a url;
\* every exception of the try block is caught.
GetRepoUrl(o) ==
    IF Raises(o) THEN [raised |-> FALSE, repo_url |-> Sentinel]
    ELSE IF o.kind = "official_url" THEN [raised |-> FALSE, repo_url |-> o.url]
    ELSE [raised |-> FALSE, repo_url |-> Sentinel]

\* paper_id.split("v")[0]
PaperKey(paper_id) == SplitFirst(paper_id, "v")

\* __init__ and to_dict: the twelve fields of a paper
ArXivPaper(r, o) ==
    [ paper_id         |-> r.short_id,
      code_url         |-> base_url \o r.short_id,
      paper_key        |-> PaperKey(r.short_id),
      paper_title      |-> r.title,
      paper_url        |-> r.entry_id,
      paper_abstract   |-> Replace(r.summary, "\n", " "),
      paper_authors    |-> r.authors,
      primary_category |-> r.primary_category,
      publish_time     |-> DateStr(r.published.date),
      update_time      |-> DateStr(r.updated.date),
      comments         |-> r.comment,
      repo_url         |-> GetRepoUrl(o).repo_url ]

-----------------------------------------------------------------------------
(* The search results the model draws from *)

Day1 == <<2024, 1, 2>>
Day2 == <<2024, 1, 5>>
Day3 == <<2023, 12, 31>>

\* an arxiv.Result with short identifier id, as the arxiv package hands it over
MkResult(id, title, day) ==
    [ short_id         |-> id,
      title            |-> title,
      entry_id         |-> <<"http://arxiv.org/abs/">> \o id,
      summary          |-> <<"a", "\n", "b">>,
      authors          |-> << <<"A">>, <<"B">> >>,
      primary_category |-> <<"cs.CV">>,
      published        |-> [date |-> day, hour |-> 17],
      updated          |-> [date |-> day, hour |-> 18],
      comment          |-> <<"c">> ]

\* The identifiers get_short_id returns: an optional archive prefix (old-style
\* identifiers such as solv-int/9901001v1), the number, an optional version.
IdPrefixes == { <<>>, <<"s", "/">>, <<"s", "v", "/">> }
IdNumbers == { <<"1">>, <<"2">>, <<"1", ".", "2">>, <<"2", ".", "1">> }
IdVersions == { <<>>, <<"v", "1">>, <<"v", "2">>, <<"v", "1", "0">> }
ProviderIds == { p \o n \o v : p \in IdPrefixes, n \in IdNumbers, v \in IdVersions }


-----------------------------------------------------------------------------
(* dict *)

Has(d, k) == \E i \in 1..Len(d) : d[i].k = k
Get(d, k) == d[CHOOSE i \in 1..Len(d) : d[i].k = k].v
KeysOf(d) == [i \in 1..Len(d) |-> d[i].k]

\* d[k] = v: an existing key keeps its place, a new key goes last
Put(d, k, v) ==
    IF Has(d, k)
    THEN [i \in 1..Len(d) |-> IF d[i].k = k THEN [k |-> k, v |-> v] ELSE d[i]]
    ELSE Append(d, [k |-> k, v |-> v])

-----------------------------------------------------------------------------
(* update_json_file *)

\* json.load of the file when the path exists, else an empty defaultdict(dict).
\* json.dump then json.load gives back the same dict in the same order: the
\* keys are str and the values str, None or lists of str.
LoadStore(f) == IF f.exists THEN f.data ELSE <<>>

\* a faulty variant: a lookup that found nothing keeps the link already stored
StoreItemKeepLink(sub, item) ==
    IF Has(sub, item.paper_key) /\ item.repo_url = Sentinel
    THEN Put(sub, item.paper_key,
             [item EXCEPT !.repo_url = Get(sub, item.paper_key).repo_url])
    ELSE Put(sub, item.paper_key, item)

\* a faulty variant: the entry is added without looking for its key
StoreItemAppend(sub, item) == Append(sub, [k |-> item.paper_key, v |-> item])

\* json_data[keyword][paper_item.paper_key] = paper_item.to_dict()
StoreItem(sub, item) == Put(sub, item.paper_key, item)

\* for paper_item in paper_items: ...
RECURSIVE StoreItems(_, _)
StoreItems(sub, items) ==
    IF items = <<>> THEN sub
    ELSE StoreItems(StoreItem(sub, Head(items)), Tail(items))

\* a faulty variant: a new keyword goes first
EnsureKeywordFirst(jd, keyword) ==
    IF Has(jd, keyword) THEN jd ELSE <<[k |-> keyword, v |-> <<>>]>> \o jd

\* a faulty variant: the keyword's sub-mapping is emptied on every run
EnsureKeywordReset(jd, keyword) == Put(jd, keyword, <<>>)

\* if keyword not in json_data: json_data[keyword] = {}
EnsureKeyword(jd, keyword) ==
    IF Has(jd, keyword) THEN jd ELSE Put(jd, keyword, <<>>)

\* one round of the loop over papers.items()
MergeKeyword(jd, keyword, items) ==
    LET jd1 == EnsureKeyword(jd, keyword)
    IN  Put(jd1, keyword, StoreItems(Get(jd1, keyword), items))

\* the loop over papers.items()
RECURSIVE MergeAll(_, _)
MergeAll(jd, ps) ==
    IF ps = <<>> THEN jd
    ELSE MergeAll(MergeKeyword(jd, Head(ps).k, Head(ps).v), Tail(ps))

\* update_json_file, from the file read to the dict written
UpdateStore(f, ps) == MergeAll(LoadStore(f), ps)

-----------------------------------------------------------------------------
(* The parts of the state an operation does not use *)

StartDay == <<2024, 1, 9>>

NoRun ==
    /\ pc = "idle" /\ kw = 1 /\ cur = <<>> /\ json_data = <<>> /\ mi = 1
    /\ lookups = <<>> /\ fileAtStart = NoFile /\ writes = 0
NoMerge == prior = NoFile /\ once = NoFile /\ runs = 0
NoRender == html = NoFile /\ docs = {} /\ today = StartDay
NoNormalise == result = <<>> /\ paper = <<>>

runVars == <<pc, kw, cur, json_data, mi, lookups, fileAtStart, writes>>
mergeVars == <<prior, once, runs>>
renderVars == <<html, docs, today>>
normaliseVars == <<result, paper>>

-----------------------------------------------------------------------------
(* ArXivPaper.__init__ on one search result *)

InitKey ==
    /\ \E id \in ProviderIds : result = <<MkResult(id, <<"a">>, Day1)>>
    /\ paper = <<>>
    /\ file = NoFile /\ papers = <<>>
    /\ NoRun /\ NoMerge /\ NoRender

\* paper = ArXivPaper(result)
Normalise ==
    /\ paper = <<>>
    /\ \E o \in LookupOutcomes :
         /\ ~GetRepoUrl(o).raised
         /\ paper' = <<ArXivPaper(result[1], o)>>
    /\ UNCHANGED <<result, file, papers, runVars, mergeVars, renderVars>>

NextKey == Normalise

SpecKey == InitKey /\ [][NextKey]_vars

\* the identifier without a trailing version marker vN, N a number
IsDigit(c) == c \in {"0", "1", "2", "3", "4", "5", "6", "7", "8", "9"}
RECURSIVE TrailingDigits(_)
TrailingDigits(s) ==
    IF s = <<>> \/ ~IsDigit(s[Len(s)]) THEN 0
    ELSE 1 + TrailingDigits(SubSeq(s, 1, Len(s) - 1))
StripVersion(s) ==
    LET n == TrailingDigits(s)
    IN  IF n > 0 /\ Len(s) > n /\ s[Len(s) - n] = "v"
        THEN SubSeq(s, 1, Len(s) - n - 1)
        ELSE s

\* C5: paper_key is paper_id without its trailing version marker, and is
\* paper_id when it has none, for every identifier the provider returns.
KeyDerivation ==
    paper # <<>> => paper[1].paper_key = StripVersion(paper[1].paper_id)


-----------------------------------------------------------------------------
(* update_json_file called with one batch after another *)

MaxItems == 2     \* records in one keyword's fresh list
MaxMerges == 2    \* batches merged one after another

SeqsUpTo(S, n) == UNION { [1..k -> S] : k \in 0..n }

OfficialUrl == [kind |-> "official_url", url |-> <<"https://github.com/x">>]
NetworkError == [kind |-> "network_error"]

\* a paper with a repository, its second version whose lookup failed, another paper
PaperA == ArXivPaper(MkResult(<<"1", "v", "1">>, <<"a">>, Day1), OfficialUrl)
PaperB == ArXivPaper(MkResult(<<"1", "v", "2">>, <<"a">>, Day1), NetworkError)
PaperC == ArXivPaper(MkResult(<<"2", "v", "1">>, <<"a">>, Day2), OfficialUrl)

FreshLists == SeqsUpTo({PaperA, PaperB, PaperC}, MaxItems)
MoreLists == { <<>>, <<PaperC>> }
KeywordSeqs == { <<>>, <<"T1">>, <<"T1", "T2">>, <<"T3", "T1">> }

\* the dicts keyword -> list with the keywords ks: the first keyword's list is
\* any fresh list, a further keyword's is empty or holds one paper
Batches(ks) ==
    IF ks = <<>> THEN { <<>> }
    ELSE { [i \in 1..Len(ks) |-> [k |-> ks[i], v |-> IF i = 1 THEN l ELSE m[i]]] :
             l \in FreshLists, m \in [1..Len(ks) -> MoreLists] }

InitMerge ==
    /\ file = NoFile /\ papers = <<>>
    /\ NoRun /\ NoMerge /\ NoRender /\ NoNormalise

\* update_json_file(json_path, ps)
UpdateJsonFile(ps) ==
    /\ runs < MaxMerges
    /\ pc \in {"idle", "updated", "updated_again"}
    /\ prior' = file
    /\ papers' = ps
    /\ file' = FileOf(UpdateStore(file, ps))
    /\ once' = file'
    /\ runs' = runs + 1
    /\ pc' = "updated"
    /\ UNCHANGED <<kw, cur, json_data, mi, lookups, fileAtStart, writes,
                   renderVars, normaliseVars>>

\* update_json_file(json_path, papers) with the batch just merged
UpdateJsonFileAgain ==
    /\ pc = "updated"
    /\ prior' = file
    /\ file' = FileOf(UpdateStore(file, papers))
    /\ pc' = "updated_again"
    /\ UNCHANGED <<papers, once, runs, kw, cur, json_data, mi, lookups,
                   fileAtStart, writes, renderVars, normaliseVars>>

NextMerge ==
    \/ \E ks \in KeywordSeqs : \E ps \in Batches(ks) : UpdateJsonFile(ps)
    \/ UpdateJsonFileAgain

SpecMerge == InitMerge /\ [][NextMerge]_vars

Updated == pc \in {"updated", "updated_again"}

\* the last record of items with paper_key x
LastWithKey(items, x) ==
    items[CHOOSE j \in 1..Len(items) :
            /\ items[j].paper_key = x
            /\ \A h \in (j + 1)..Len(items) : items[h].paper_key # x]

\* C1: after the merge the store holds, for every record of the batch, the
\* last record of the batch with its key under its keyword, in every field.
LastWriteWins ==
    Updated =>
        \A e \in 1..Len(papers) : \A i \in 1..Len(papers[e].v) :
            LET t == papers[e].k
                x == papers[e].v[i].paper_key
            IN  /\ Has(file.data, t)
                /\ Has(Get(file.data, t), x)
                /\ Get(Get(file.data, t), x) = LastWithKey(papers[e].v, x)

\* a stored real link is replaced by "#", the batch holding the key twice
LastWriteWinsWitness ==
    /\ Updated
    /\ \E e \in 1..Len(papers) : \E i, j \in 1..Len(papers[e].v) :
        LET t == papers[e].k
            x == papers[e].v[i].paper_key
        IN  /\ i < j
            /\ papers[e].v[j].paper_key = x
            /\ papers[e].v[i] # papers[e].v[j]
            /\ papers[e].v[j].repo_url = Sentinel
            /\ Has(prior.data, t) /\ Has(Get(prior.data, t), x)
            /\ Get(Get(prior.data, t), x).repo_url # Sentinel
            /\ Get(Get(file.data, t), x).repo_url = Sentinel

\* the elements of s that are not in set S, in s's order
RECURSIVE Without(_, _)
Without(s, S) ==
    IF s = <<>> THEN <<>>
    ELSE IF Head(s) \in S THEN Without(Tail(s), S)
    ELSE <<Head(s)>> \o Without(Tail(s), S)

Range(s) == { s[i] : i \in 1..Len(s) }

\* C3: the merged store's keywords are the prior store's, in their order,
\* followed by the batch's new keywords in the batch's order.
TopicOrderPreserved ==
    Updated =>
        KeysOf(file.data) =
            KeysOf(prior.data) \o Without(KeysOf(papers), Range(KeysOf(prior.data)))

\* prior [T1, T2], a batch that brings T3 and fresh records for T1
TopicOrderWitness ==
    /\ Updated
    /\ KeysOf(prior.data) = <<"T1", "T2">>
    /\ KeysOf(papers) = <<"T3", "T1">>
    /\ papers[2].v # <<>>
    /\ KeysOf(file.data) = <<"T1", "T2", "T3">>

\* C4: merging the same batch a second time leaves the store as the first
\* merge left it.
IdempotentMerge == pc = "updated_again" => file = once

\* the batch merged twice changed the store the first time and holds a key twice
IdempotentWitness ==
    /\ pc = "updated_again"
    /\ runs = 2
    /\ \E e \in 1..Len(papers) : \E i, j \in 1..Len(papers[e].v) :
         /\ i < j
         /\ papers[e].v[i].paper_key = papers[e].v[j].paper_key
         /\ papers[e].v[i] # papers[e].v[j]
         /\ Has(file.data, papers[e].k)
         /\ Len(Get(file.data, papers[e].k)) = 2

\* whether the batch holds a record with key x under keyword t
InBatch(t, x) ==
    \E e \in 1..Len(papers) :
        papers[e].k = t /\ \E i \in 1..Len(papers[e].v) : papers[e].v[i].paper_key = x

\* C10: a merge removes no keyword and no entry, leaves every entry the batch
\* does not name as it was, adds nothing for an empty list (an empty
\* sub-mapping for a new keyword), and every record is stored under its own
\* paper_key.
MergeFrame ==
    /\ Updated =>
        /\ \A a \in 1..Len(prior.data) :
            LET t == prior.data[a].k
                old == prior.data[a].v
            IN  /\ Has(file.data, t)
                /\ \A b \in 1..Len(old) :
                    /\ Has(Get(file.data, t), old[b].k)
                    /\ ~InBatch(t, old[b].k) =>
                           Get(Get(file.data, t), old[b].k) = old[b].v
        /\ \A e \in 1..Len(papers) :
            papers[e].v = <<>> =>
                Get(file.data, papers[e].k) =
                    IF Has(prior.data, papers[e].k)
                    THEN Get(prior.data, papers[e].k) ELSE <<>>
    /\ \A a \in 1..Len(file.data) : \A b \in 1..Len(file.data[a].v) :
          file.data[a].v[b].k = file.data[a].v[b].v.paper_key

\* an empty fetch for a keyword that holds records, beside a keyword the batch
\* does not name
MergeFrameWitness ==
    /\ Updated
    /\ \E e \in 1..Len(papers) :
         /\ papers[e].v = <<>>
         /\ Has(prior.data, papers[e].k)
         /\ Get(prior.data, papers[e].k) # <<>>
         /\ Get(file.data, papers[e].k) = Get(prior.data, papers[e].k)
    /\ \E a \in 1..Len(prior.data) :
         /\ prior.data[a].v # <<>>
         /\ \A e \in 1..Len(papers) : papers[e].k # prior.data[a].k


-----------------------------------------------------------------------------
(* json_to_html *)

Reverse(s) == [i \in 1..Len(s) |-> s[Len(s) + 1 - i]]

\* s with x put before the first element whose publish_time is greater: a
\* stable insertion into a list sorted by publish_time
RECURSIVE InsertByTime(_, _)
InsertByTime(s, x) ==
    IF s = <<>> THEN <<x>>
    ELSE IF StrLess(x.v.publish_time, Head(s).v.publish_time) THEN <<x>> \o s
    ELSE <<Head(s)>> \o InsertByTime(Tail(s), x)

\* a stable sort by publish_time, ascending
RECURSIVE StableSort(_)
StableSort(s) ==
    IF s = <<>> THEN <<>>
    ELSE InsertByTime(StableSort(SubSeq(s, 1, Len(s) - 1)), s[Len(s)])

\* a faulty variant: sorted ascending and then reversed, which reverses the ties
SortedPapersFlipped(day_content) == Reverse(StableSort(day_content))

\* sorted(day_content.items(), key=publish_time, reverse=True): list.sort
\* reverses the list, sorts it stably and reverses the result, so that equal
\* keys keep their order.
SortedPapers(day_content) == Reverse(StableSort(Reverse(day_content)))

\* sep.join(texts)
RECURSIVE Join(_, _)
Join(texts, sep) ==
    IF texts = <<>> THEN <<>>
    ELSE IF Len(texts) = 1 THEN texts[1]
    ELSE texts[1] \o sep \o Join(Tail(texts), sep)

\* the pieces of the template between its fields, one lexeme each
TitleOpen == "<h5 class=card-title>"
TimeOpen == "</h5><div><small>"
TimeClose == "</small><small><i>"
TargetOpen == "</i></small></div><button data-bs-target=#abstract-"
TargetClose == "><i class=fa-align-left></i> Show Abstract</button>"
TopicOpen == "<div id="
ScriptOpen == "<script>"

CodeLink(paper_info) ==
    IF paper_info.repo_url # Sentinel
    THEN <<"<a href=">> \o paper_info.repo_url \o <<" class=btn-success>Code</a>">>
    ELSE <<>>

\* one card, lines 150 to 180
Card(paper_key, paper_info) ==
    <<"<div class=card><div class=card-body>", TitleOpen>>
    \o paper_info.paper_title
    \o <<TimeOpen>> \o paper_info.publish_time
    \o <<TimeClose>> \o Join(paper_info.paper_authors, <<",", " ">>)
    \o <<TargetOpen>> \o Replace(paper_key, ".", "-")
    \o <<TargetClose, "<div class=collapse id=abstract-">>
    \o Replace(paper_key, ".", "-")
    \o <<"><div class=card-body>">> \o paper_info.paper_abstract
    \o <<"</div></div><div class=paper-actions><a href=">> \o paper_info.paper_url
    \o <<" class=btn-primary>arXiv</a>">>
    \o CodeLink(paper_info)
    \o <<"</div></div></div>">>

\* one topic's block, lines 132 to 187
TopicContent(i, keyword, day_content) ==
    LET sorted_papers == SortedPapers(day_content)
    IN  <<TopicOpen, keyword, " class=topic-content style=",
          IF i = 1 THEN "" ELSE "display: none;", "><h2>", keyword, "</h2>">>
        \o Concat([j \in 1..Len(sorted_papers) |->
                      Card(sorted_papers[j].k, sorted_papers[j].v)])
        \o <<"</div>">>

\* one dropdown item, lines 112 to 116
NavItem(i, keyword) ==
    <<"<li><a class=dropdown-item ", IF i = 1 THEN "active" ELSE "",
      " onclick=showTopic('", keyword, "')>", keyword, "</a></li>">>

\* the document json_to_html writes for the store data, lines 86 to 239
HtmlTemplate(data, title, date) ==
    LET current_date == Replace(DateStr(date), "-", ".")
        nav_html ==
            <<"<nav><a class=navbar-brand>">> \o title
            \o <<"</a><ul class=dropdown-menu>">>
            \o Concat([i \in 1..Len(data) |-> NavItem(i, data[i].k)])
            \o <<"</ul><span>Updated on ">> \o current_date \o <<"</span></nav>">>
        content_html ==
            [i \in 1..Len(data) |-> TopicContent(i, data[i].k, data[i].v)]
    IN  <<"<!DOCTYPE html><html><head><title>">> \o title
        \o <<"</title></head><body>">>
        \o nav_html \o Concat(content_html)
        \o <<"<script src=bootstrap.bundle.min.js></script>",
              ScriptOpen, "function showTopic(topicName) {...}",
              "</script></body></html>">>

DefaultTitle == <<"Daily ArXiv Papers">>

-----------------------------------------------------------------------------
(* json_to_html called on a store, on one day and another *)

MaxCards == 3    \* records of the first topic
MaxDays == 2     \* days that pass

\* two papers published the same day, a later one, an earlier one
Card1 == ArXivPaper(MkResult(<<"1", ".", "1", "v", "1">>, <<"a">>, Day1), OfficialUrl)
Card2 == ArXivPaper(MkResult(<<"2", ".", "2", "v", "2">>, <<"<script>">>, Day1), NetworkError)
Card3 == ArXivPaper(MkResult(<<"3", ".", "3", "v", "1">>, <<"a">>, Day2), NetworkError)
Card4 == ArXivPaper(MkResult(<<"4", ".", "4", "v", "1">>, <<"a", "&", "b">>, Day3), NetworkError)

RenderBatches ==
    { <<[k |-> "T1", v |-> l]>> \o m :
        l \in SeqsUpTo({Card1, Card2, Card3, Card4}, MaxCards),
        m \in { <<>>, <<[k |-> "T2", v |-> <<>>]>>, <<[k |-> "T2", v |-> <<Card3, Card1>>]>> } }

InitRender ==
    /\ \E ps \in RenderBatches :
         /\ papers = ps
         /\ file = FileOf(UpdateStore(NoFile, ps))
    /\ NoRun /\ NoMerge /\ NoRender /\ NoNormalise

\* json_to_html(json_file, html_file)
JsonToHtml ==
    /\ pc = "idle"
    /\ file.exists
    /\ html' = FileOf(HtmlTemplate(file.data, DefaultTitle, today))
    /\ docs' = docs \cup { [data |-> file.data, title |-> DefaultTitle,
                             doc |-> html'.data] }
    /\ UNCHANGED <<file, today, papers, runVars, mergeVars, normaliseVars>>

\* midnight
NextDay ==
    /\ today[3] < StartDay[3] + MaxDays
    /\ today' = <<today[1], today[2], today[3] + 1>>
    /\ UNCHANGED <<file, html, docs, papers, runVars, mergeVars, normaliseVars>>

NextRender == JsonToHtml \/ NextDay

SpecRender == InitRender /\ [][NextRender]_vars


\* the text after position i of doc, up to the next lexeme close
FieldAt(doc, i, close) ==
    LET ends == { j \in (i + 1)..Len(doc) : doc[j] = close } \cup { Len(doc) + 1 }
        end == CHOOSE j \in ends : \A h \in ends : j <= h
    IN  SubSeq(doc, i + 1, end - 1)

\* the texts that follow each lexeme open in doc, each up to the next close
Fields(doc, open, close) ==
    LET at == { i \in 1..Len(doc) : doc[i] = open }
        Nth(n) == CHOOSE i \in at : Cardinality({ j \in at : j < i }) = n - 1
    IN  [n \in 1..Cardinality(at) |-> FieldAt(doc, Nth(n), close)]

\* the keys and the dates of the cards of one topic's block, in document order
CardKeys(block) == Fields(block, TargetOpen, TargetClose)
CardTimes(block) == Fields(block, TimeOpen, TimeClose)
TopicBlocks(doc) == Fields(doc, TopicOpen, TopicOpen)

\* where the card with target key is in the sub-mapping sub
EntryOf(sub, key) == CHOOSE b \in 1..Len(sub) : Replace(sub[b].k, ".", "-") = key

\* C7: the document holds one block per topic in the store's order; a block
\* holds one card per record, in non-increasing publish_time order, and cards
\* with the same publish_time in the order of the topic's sub-mapping.
RenderOrder ==
    html.exists =>
        LET blocks == TopicBlocks(html.data)
        IN  /\ Len(blocks) = Len(file.data)
            /\ \A a \in 1..Len(blocks) :
                LET sub == file.data[a].v
                    keys == CardKeys(blocks[a])
                    times == CardTimes(blocks[a])
                IN  /\ blocks[a][1] = file.data[a].k
                    /\ Len(keys) = Len(sub)
                    /\ Len(times) = Len(sub)
                    /\ Range(keys) = { Replace(sub[b].k, ".", "-") : b \in 1..Len(sub) }
                    /\ \A i \in 1..Len(keys) :
                          times[i] = sub[EntryOf(sub, keys[i])].v.publish_time
                    /\ \A i, j \in 1..Len(keys) :
                          i < j =>
                            /\ ~StrLess(times[i], times[j])
                            /\ times[i] = times[j] =>
                                  EntryOf(sub, keys[i]) < EntryOf(sub, keys[j])

\* a rendered topic of three records that the sort reordered and that holds a tie
RenderOrderWitness ==
    /\ html.exists
    /\ Len(file.data) = 2
    /\ \E a \in 1..Len(file.data) :
        LET sub == file.data[a].v
            keys == CardKeys(TopicBlocks(html.data)[a])
            times == CardTimes(TopicBlocks(html.data)[a])
        IN  /\ Len(sub) = 3
            /\ keys # [b \in 1..Len(sub) |-> Replace(sub[b].k, ".", "-")]
            /\ \E i, j \in 1..Len(keys) : i < j /\ times[i] = times[j]
            /\ \E i, j \in 1..Len(keys) : i < j /\ StrLess(times[j], times[i])

\* the lexemes that open markup or an entity in HTML
HtmlSpecial == { "<script>", "<", ">", "&" }

\* C8: no HTML-special text of a title, abstract, author or topic name is in
\* the document unescaped: the only such lexeme is the template's own script.
HtmlSafe ==
    html.exists =>
        { i \in 1..Len(html.data) : html.data[i] \in HtmlSpecial }
            = { Len(html.data) - 2 }

\* C9: two documents rendered from the same store with the same title are the
\* same document, whenever each was rendered.
RenderDeterministic ==
    \A a, b \in docs : (a.data = b.data /\ a.title = b.title) => a.doc = b.doc


-----------------------------------------------------------------------------
(* get_papers and main *)

MaxResults == 2    \* max_results_per_keyword, 200 in main

\* the keys of main's keywords, seven in the source
Keywords == <<"T1", "T2">>

\* What the searches can return: client.results yields papers sorted by
\* submission date, so each keyword's results are some of the feed, in order.
Feed == << MkResult(<<"1", "v", "1">>, <<"a">>, Day2),
           MkResult(<<"2", "v", "1">>, <<"a">>, Day1) >>

\* how far in the feed the results of the current keyword have come
FeedPos(ps) ==
    IF ps = <<>> THEN 0
    ELSE CHOOSE n \in 1..Len(Feed) : Feed[n].short_id = ps[Len(ps)].paper_id

\* a faulty variant: the store is written after the first keyword is merged
MergeLoopDoneEarly(i, ps) == i > 1

\* the for loop of update_json_file has run over every keyword of papers
MergeLoopDone(i, ps) == i > Len(ps)

InitMain ==
    /\ file = NoFile /\ papers = <<>>
    /\ NoRun /\ NoMerge /\ NoRender /\ NoNormalise

\* main is started: papers = get_papers(keywords, ...) begins
StartMain ==
    /\ pc \in {"idle", "done", "search_failed", "lookup_raised"}
    /\ pc' = "get_papers"
    /\ kw' = 1 /\ cur' = <<>> /\ papers' = <<>> /\ lookups' = <<>>
    /\ json_data' = <<>> /\ mi' = 1
    /\ fileAtStart' = file /\ writes' = 0
    /\ UNCHANGED <<file, mergeVars, renderVars, normaliseVars>>

\* client.results yields the feed's n-th paper; paper = ArXivPaper(result), the
\* repository lookup ending in o; keyword_specific_papers.append(paper)
FetchResult(n, o) ==
    /\ pc = "get_papers"
    /\ kw <= Len(Keywords)
    /\ Len(cur) < MaxResults
    /\ n > FeedPos(cur)
    /\ lookups' = Append(lookups, o)
    /\ IF GetRepoUrl(o).raised
       THEN pc' = "lookup_raised" /\ cur' = cur
       ELSE pc' = pc /\ cur' = Append(cur, ArXivPaper(Feed[n], o))
    /\ UNCHANGED <<file, kw, papers, json_data, mi, fileAtStart, writes,
                   mergeVars, renderVars, normaliseVars>>

\* client.results raises: the exception leaves get_papers and main
SearchFails ==
    /\ pc = "get_papers"
    /\ kw <= Len(Keywords)
    /\ pc' = "search_failed"
    /\ UNCHANGED <<file, kw, cur, papers, json_data, mi, lookups, fileAtStart,
                   writes, mergeVars, renderVars, normaliseVars>>

\* the results of the keyword are over: papers[keyword] = keyword_specific_papers
KeywordDone ==
    /\ pc = "get_papers"
    /\ kw <= Len(Keywords)
    /\ papers' = Put(papers, Keywords[kw], cur)
    /\ cur' = <<>>
    /\ kw' = kw + 1
    /\ UNCHANGED <<file, pc, json_data, mi, lookups, fileAtStart, writes,
                   mergeVars, renderVars, normaliseVars>>

\* return papers
GetPapersReturns ==
    /\ pc = "get_papers"
    /\ kw > Len(Keywords)
    /\ pc' = "update_json_file"
    /\ UNCHANGED <<file, kw, cur, papers, json_data, mi, lookups, fileAtStart,
                   writes, mergeVars, renderVars, normaliseVars>>

\* update_json_file, lines 62 to 66
LoadJson ==
    /\ pc = "update_json_file"
    /\ json_data' = LoadStore(file)
    /\ mi' = 1
    /\ pc' = "merge"
    /\ UNCHANGED <<file, kw, cur, papers, lookups, fileAtStart, writes,
                   mergeVars, renderVars, normaliseVars>>

\* update_json_file, one round of the loop of lines 69 to 75
MergeStep ==
    /\ pc = "merge"
    /\ mi <= Len(papers)
    /\ json_data' = MergeKeyword(json_data, papers[mi].k, papers[mi].v)
    /\ mi' = mi + 1
    /\ UNCHANGED <<file, pc, kw, cur, papers, lookups, fileAtStart, writes,
                   mergeVars, renderVars, normaliseVars>>

\* update_json_file, lines 77 and 78
DumpJson ==
    /\ pc = "merge"
    /\ MergeLoopDone(mi, papers)
    /\ file' = FileOf(json_data)
    /\ writes' = writes + 1
    /\ pc' = "json_to_html"
    /\ UNCHANGED <<kw, cur, papers, json_data, mi, lookups, fileAtStart,
                   mergeVars, renderVars, normaliseVars>>

\* json_to_html(json_file, html_file), as main calls it
MainJsonToHtml ==
    /\ pc = "json_to_html"
    /\ file.exists
    /\ html' = FileOf(HtmlTemplate(file.data, DefaultTitle, today))
    /\ pc' = "done"
    /\ UNCHANGED <<file, today, docs, kw, cur, papers, json_data, mi, lookups,
                   fileAtStart, writes, mergeVars, normaliseVars>>

GetPapersStep(outcomes) ==
    \/ StartMain
    \/ \E n \in 1..Len(Feed) : \E o \in outcomes : FetchResult(n, o)
    \/ SearchFails
    \/ KeywordDone
    \/ GetPapersReturns

NextFetch == GetPapersStep(LookupOutcomes)

\* get_papers, with every outcome of the repository lookup
SpecFetch == InitMain /\ [][NextFetch]_vars

Next ==
    \/ GetPapersStep({NetworkError, OfficialUrl})
    \/ LoadJson
    \/ MergeStep
    \/ DumpJson
    \/ MainJsonToHtml

\* main, run after run
Spec == InitMain /\ [][Next]_vars

\* every paper built in this call of get_papers, in order
BuiltPapers == Concat([e \in 1..Len(papers) |-> papers[e].v]) \o cur

\* C6: whatever the repository lookup gives, no exception leaves
\* get_repo_url, the paper is built, its repo_url is "#" unless the answer
\* held a non-empty "official" with a url, and get_papers goes on.
ResolverRecovered ==
    /\ pc # "lookup_raised"
    /\ Len(lookups) = Len(BuiltPapers)
    /\ \A i \in 1..Len(lookups) :
         IF lookups[i].kind = "official_url"
         THEN BuiltPapers[i].repo_url = lookups[i].url
         ELSE BuiltPapers[i].repo_url = Sentinel

\* get_papers returned after lookups that failed in different ways, for
\* papers of the first keyword and of the second
ResolverRecoveredWitness ==
    /\ pc = "update_json_file"
    /\ Len(lookups) = 4
    /\ Len(papers[1].v) = 2
    /\ lookups[1].kind = "network_error"
    /\ lookups[2].kind = "official_no_url"
    /\ lookups[3].kind = "json_null"
    /\ lookups[4].kind = "official_url"
    /\ BuiltPapers[1].repo_url = Sentinel
    /\ BuiltPapers[4].repo_url # Sentinel

\* C2: in a run the store file is written at most once, after every keyword
\* was searched and merged in memory; until then, and in a run that an error
\* ended, the file is as it was when the run began; the page is rendered only
\* after the save.
RunAtomicity ==
    /\ writes \in {0, 1}
    /\ writes = 0 => file = fileAtStart
    /\ writes = 1 =>
         /\ kw > Len(Keywords)
         /\ KeysOf(papers) = Keywords
         /\ mi > Len(papers)
         /\ json_data = UpdateStore(fileAtStart, papers)
         /\ file = FileOf(json_data)
    /\ pc \in {"search_failed", "lookup_raised"} => writes = 0
    /\ pc = "done" => writes = 1

\* the second keyword's search fails after the first brought a paper that
\* would change the stored one: the file is the one the run found
RunAtomicityWitness ==
    /\ pc = "search_failed"
    /\ kw = 2
    /\ fileAtStart.exists
    /\ papers # <<>>
    /\ papers[1].v # <<>>
    /\ UpdateStore(fileAtStart, papers) # fileAtStart.data
    /\ file = fileAtStart

=============================================================================
